---- MODULE Spec2Model ----
(***************************************************************************)
(* MedSynEval: the assignment / progress / evaluation state model.         *)
(* Persisted rows (Assignment, Evaluation, ImageSet.is_active) and the     *)
(* request handlers that read and write them: submit_evaluation,           *)
(* get_next_image, evaluate_image, the admin splitter and the admin save.  *)
(***************************************************************************)
EXTENDS Integers, FiniteSets, Sequences, Bags, TLC

VARIABLES
  images,        \* Image rows: the image ids of each image set (loaded by ingestion)
  evaluations,   \* bag of Evaluation rows [clinician, image, is_real, confidence]
  assignments,   \* set of Assignment rows
  is_active,     \* ImageSet.is_active, per image set
  inflight,      \* per worker: the request it is in the middle of (SpecRace only)
  last,          \* the response being sent, NoResponse once it is out
  nops,          \* number of requests so far that got to write to the database
  invitations,   \* Invitation rows: per token "absent", "unused" or "used"
  users          \* Clinician rows created by registration [username, email]

vars == <<images, evaluations, assignments, is_active, inflight, last, nops,
          invitations, users>>

----------------------------------------------------------------------------
(* Bounds *)

MaxOps == 3

\* the largest image set the splitter is run on in SpecSplit
MaxImages == 3

\* the number of consecutive splitter runs in SpecSplit
MaxSplits == 2

----------------------------------------------------------------------------
(* Fixture: clinicians, image sets and their images (loaded outside the     *)
(* modelled operations; they never change).                                *)

Clinicians == {"c1", "c2"}

ImageSets == {"s1", "s2"}

\* the invitation tokens (UUIDs) the database can hold
Tokens == {"t1", "t2"}

\* the image tables ingestion can have left: s2 with one image, or with none
Worlds == {[s1 |-> {1, 2}, s2 |-> {3}], [s1 |-> {1, 2}, s2 |-> {}]}

\* imageset.images.all()
ImagesOf(s) == images[s]

\* Image.objects.all()
Images == UNION {ImagesOf(s) : s \in ImageSets}

\* Image.image_set
ImageSetOf(i) == CHOOSE s \in ImageSets : i \in ImagesOf(s)

\* Image.is_real, the ground-truth label
ImageIsReal(i) == i \in {1, 3}

None == "None"

----------------------------------------------------------------------------
(* JSON values of a request body, tagged by type.                          *)

JNull == <<"null">>

JInt(n) == <<"int", n>>

JStr(s) == <<"str", s>>

JBool(b) == <<"bool", b>>

\* Python truthiness, as used by `not image_id` / `not confidence`
Falsy(v) ==
  \/ v = JNull
  \/ v[1] = "int" /\ v[2] = 0
  \/ v[1] = "str" /\ v[2] = ""
  \/ v[1] = "bool" /\ v[2] = FALSE

\* int(confidence): the integer, or ValueError for a non-numeric string
IntConvertible(v) == v[1] = "int"

IntOf(v) == v[2]

\* the request bodies <<image_id, is_real, confidence>> sent to submit_evaluation
SubmitInputs ==
  {<<JInt(i), JBool(b), JInt(1)>> : i \in {1, 2, 3, 9}, b \in BOOLEAN}
  \cup {<<JInt(i), JBool(TRUE), JInt(6)>> : i \in {1, 2, 3}}
  \cup {<<JInt(1), JBool(TRUE), JInt(-1)>>, <<JInt(1), JBool(TRUE), JStr("abc")>>,
        <<JInt(1), JBool(TRUE), JInt(0)>>, <<JInt(9), JBool(TRUE), JInt(0)>>,
        <<JInt(1), JNull, JInt(1)>>, <<JNull, JBool(TRUE), JInt(1)>>}

\* the fields <<image_id, is_real, confidence>> the evaluation form posts
FormInputs ==
  {<<JInt(i), b, JInt(1)>> : i \in {1, 2, 3}, b \in BOOLEAN}
  \cup {<<JInt(1), TRUE, JInt(6)>>, <<JInt(9), TRUE, JInt(1)>>, <<JNull, TRUE, JInt(1)>>}

----------------------------------------------------------------------------
(* Queries *)

\* a count of the clinician's evaluations that ignores the scope
CountEvaluationsAnyImage(evs, c, imgs) ==
  LET hit == {e \in DOMAIN evs : e.clinician = c}
  IN  BagCardinality([e \in hit |-> evs[e]])

\* Evaluation.objects.filter(clinician=c, image__in=imgs).count()
CountEvaluations(evs, c, imgs) ==
  LET hit == {e \in DOMAIN evs : e.clinician = c /\ e.image \in imgs}
  IN  BagCardinality([e \in hit |-> evs[e]])

\* Evaluation.objects.filter(clinician=c, image=i).exists()
EvaluationExists(evs, c, i) ==
  \E e \in DOMAIN evs : e.clinician = c /\ e.image = i

\* the image ids a clinician has evaluated, within imgs
EvaluatedImageIds(evs, c, imgs) ==
  {e.image : e \in {x \in DOMAIN evs : x.clinician = c /\ x.image \in imgs}}

\* Assignment.objects.filter(clinician=c, image_set__is_active=True, is_completed=False)
ActiveAssignments(asg, act, c) ==
  {a \in asg : a.clinician = c /\ act[a.image_set] /\ ~a.is_completed}

\* Assignment rows carry `id`, the rank of the row among its clinician's rows
\* in creation order: it stands for the primary key and for assigned_at, which
\* the handlers compare only among one clinician's rows
SameRow(a, b) == a.clinician = b.clinician /\ a.id = b.id

\* the id the next Assignment row of clinician c gets
NewId(asg, c) == Cardinality({a \in asg : a.clinician = c}) + 1

\* the effective scope get_progress counts over
EffectiveScope(a) ==
  IF a.assigned_images # {} THEN a.assigned_images ELSE ImagesOf(a.image_set)

\* Assignment.get_evaluated_count
get_evaluated_count(a, evs) == CountEvaluations(evs, a.clinician, EffectiveScope(a))

\* a progress that counts over the whole image set, whatever the subset
get_progressWholeSet(a, evs) ==
  LET total_images == Cardinality(ImagesOf(a.image_set))
      evaluated_count == CountEvaluations(evs, a.clinician, ImagesOf(a.image_set))
  IN  IF total_images = 0 THEN [num |-> 0, den |-> 1]
      ELSE [num |-> evaluated_count * 100, den |-> total_images]

\* a progress that counts the evaluations of every clinician
get_progressAnyClinician(a, evs) ==
  LET total_images == Cardinality(EffectiveScope(a))
      evaluated_count == BagCardinality([e \in {x \in DOMAIN evs : x.image \in EffectiveScope(a)}
                                           |-> evs[e]])
  IN  IF total_images = 0 THEN [num |-> 0, den |-> 1]
      ELSE [num |-> evaluated_count * 100, den |-> total_images]

\* Assignment.get_progress: (evaluated_count / total_images) * 100 as the
\* exact fraction num/den; 0 when the scope is empty
get_progress(a, evs) ==
  LET total_images == Cardinality(EffectiveScope(a))
      evaluated_count == CountEvaluations(evs, a.clinician, EffectiveScope(a))
  IN  IF total_images = 0 THEN [num |-> 0, den |-> 1]
      ELSE [num |-> evaluated_count * 100, den |-> total_images]

\* get_progress() == 100
ProgressIs100(p) == p.num = 100 * p.den

----------------------------------------------------------------------------
(* Responses *)

\* a response, with the handler and the logged-in user it answers
Response(op, c, status, message) ==
  [op |-> op, clinician |-> c, image_id |-> None, status |-> status, message |-> message]

\* a response of submit_evaluation, with the image_id of the request body
SubmitResponse(c, image_id, status, message) ==
  [op |-> "submit_evaluation", clinician |-> c, image_id |-> image_id,
   status |-> status, message |-> message]

NoResponse == Response("none", None, 0, "")

\* a worker that is between requests
Idle == [pc |-> "idle"]

Workers == {"w1", "w2"}

----------------------------------------------------------------------------
(* Storage layer *)

\* an INSERT with the unique_together constraint left out of the schema
InsertEvaluationNoConstraint(evs, row) ==
  IF row.confidence < 0
  THEN [ok |-> FALSE, rows |-> evs]
  ELSE [ok |-> TRUE, rows |-> evs (+) SetToBag({row})]

\* an INSERT that overwrites the row of the same (clinician, image) pair
InsertEvaluationUpsert(evs, row) ==
  LET old == {e \in DOMAIN evs : e.clinician = row.clinician /\ e.image = row.image}
      kept == [e \in DOMAIN evs \ old |-> evs[e]]
  IN  IF row.confidence < 0
      THEN [ok |-> FALSE, rows |-> evs]
      ELSE [ok |-> TRUE, rows |-> kept (+) SetToBag({row})]

\* INSERT of an Evaluation row: unique_together (clinician, image) and the
\* CHECK (confidence >= 0) of PositiveIntegerField; ok = FALSE is IntegrityError
InsertEvaluation(evs, row) ==
  IF EvaluationExists(evs, row.clinician, row.image) \/ row.confidence < 0
  THEN [ok |-> FALSE, rows |-> evs]
  ELSE [ok |-> TRUE, rows |-> evs (+) SetToBag({row})]

----------------------------------------------------------------------------
(* submit_evaluation *)

\* the precondition checks without the 'already evaluated' test of lines 72-74
SubmitPrecheckNoExists(c, image_id, is_real, confidence, evs, active) ==
  IF Falsy(image_id) \/ is_real = JNull \/ Falsy(confidence)
  THEN SubmitResponse(c, image_id, 400, "Missing required fields")
  ELSE IF IntOf(image_id) \notin Images
  THEN SubmitResponse(c, image_id, 404, "Invalid image")
  ELSE IF IntOf(image_id) \notin UNION {ImagesOf(a.image_set) : a \in active}
  THEN SubmitResponse(c, image_id, 403, "Unauthorized access to this image")
  ELSE SubmitResponse(c, image_id, 0, "")

\* lines 41-74: the precondition checks; status 0 means all passed
SubmitPrecheck(c, image_id, is_real, confidence, evs, active) ==
  IF Falsy(image_id) \/ is_real = JNull \/ Falsy(confidence)
  THEN SubmitResponse(c, image_id, 400, "Missing required fields")
  ELSE IF IntOf(image_id) \notin Images
  THEN SubmitResponse(c, image_id, 404, "Invalid image")
  ELSE IF IntOf(image_id) \notin UNION {ImagesOf(a.image_set) : a \in active}
  THEN SubmitResponse(c, image_id, 403, "Unauthorized access to this image")
  ELSE IF EvaluationExists(evs, c, IntOf(image_id))
  THEN SubmitResponse(c, image_id, 400, "Image already evaluated")
  ELSE SubmitResponse(c, image_id, 0, "")

\* lines 77-82: Evaluation.objects.create(..., confidence=int(confidence))
CreateEvaluation(evs, c, image_id, is_real, confidence) ==
  IF ~IntConvertible(confidence)
  THEN [ok |-> FALSE, rows |-> evs]
  ELSE InsertEvaluation(evs, [clinician |-> c, image |-> IntOf(image_id),
                              is_real |-> is_real[2], confidence |-> IntOf(confidence)])

\* lines 85-89: the rows of `snapshot` (the queryset cached at line 64) whose
\* progress now reads 100 are saved as completed
MarkCompleted(asg, evs, snapshot) ==
  {IF \E s \in snapshot : SameRow(s, a) /\ ~s.is_completed /\ ProgressIs100(get_progress(a, evs))
   THEN [a EXCEPT !.is_completed = TRUE, !.completed_at = "now"]
   ELSE a : a \in asg}

\* what one handler run leaves behind
Commit(evs, asg, act, resp) ==
  LET changed == evs # evaluations \/ asg # assignments \/ act # is_active
  IN  /\ UNCHANGED <<images, invitations, users>>
      /\ evaluations' = evs
      /\ assignments' = asg
      /\ is_active' = act
      /\ last' = resp
      /\ nops' = IF changed THEN nops + 1 ELSE nops

\* the whole request: its response and the rows it leaves
SubmitOutcome(c, image_id, is_real, confidence) ==
  LET active == ActiveAssignments(assignments, is_active, c)
      pre == SubmitPrecheck(c, image_id, is_real, confidence, evaluations, active)
      ins == CreateEvaluation(evaluations, c, image_id, is_real, confidence)
  IN  IF pre.status # 0
      THEN [resp |-> pre, rows |-> evaluations, asg |-> assignments]
      ELSE IF ~ins.ok
      THEN [resp |-> SubmitResponse(c, image_id, 500, "exception"),
            rows |-> evaluations, asg |-> assignments]
      ELSE [resp |-> SubmitResponse(c, image_id, 200, "Evaluation submitted successfully"),
            rows |-> ins.rows, asg |-> MarkCompleted(assignments, ins.rows, active)]

submit_evaluation(c, image_id, is_real, confidence) ==
  /\ UNCHANGED inflight
  /\ \E out \in {SubmitOutcome(c, image_id, is_real, confidence)} :
       Commit(out.rows, out.asg, is_active, out.resp)

----------------------------------------------------------------------------
(* Small helpers *)

Min(a, b) == IF a < b THEN a ELSE b

RECURSIVE SumImages(_)
\* len() of the list built by extending with each assignment's image ids
SumImages(rows) ==
  IF rows = {} THEN 0
  ELSE LET a == CHOOSE x \in rows : TRUE
       IN  Cardinality(ImagesOf(a.image_set)) + SumImages(rows \ {a})

RECURSIVE Orderings(_)
\* all orderings of a finite set, as sequences
Orderings(S) ==
  IF S = {} THEN {<<>>}
  ELSE UNION {{<<x>> \o q : q \in Orderings(S \ {x})} : x \in S}

----------------------------------------------------------------------------
(* get_next_image: a pure read *)

NoParam == 0

UnknownId == 99

\* the values a request can give for an assignment id
AssignmentIdInputs == {NoParam, UnknownId} \cup {a.id : a \in assignments}

\* lines 108-117: the assignments in scope of the request
NextImageScope(c, assignment_id) ==
  {a \in ActiveAssignments(assignments, is_active, c) :
     assignment_id = NoParam \/ a.id = assignment_id}

\* lines 127-131
NextImageAssignedIds(c, assignment_id) ==
  UNION {ImagesOf(a.image_set) : a \in NextImageScope(c, assignment_id)}

\* lines 134-149: the evaluated ids the request subtracts
NextImageEvaluatedIds(c, assignment_id) ==
  IF assignment_id # NoParam
  THEN EvaluatedImageIds(evaluations, c, NextImageAssignedIds(c, assignment_id))
  ELSE EvaluatedImageIds(evaluations, c, Images)

\* line 152
NextImageRemaining(c, assignment_id) ==
  NextImageAssignedIds(c, assignment_id) \ NextImageEvaluatedIds(c, assignment_id)

\* len(evaluated_image_ids): the number of rows the query returns
NextImageEvaluatedCount(c, assignment_id) ==
  IF assignment_id # NoParam
  THEN CountEvaluations(evaluations, c, NextImageAssignedIds(c, assignment_id))
  ELSE CountEvaluations(evaluations, c, Images)

\* the response for the image `pick` chosen by order_by('?').first()
NextImageResponse(c, assignment_id, pick) ==
  IF NextImageScope(c, assignment_id) = {}
  THEN [completed |-> TRUE, message |-> "No active assignments"]
  ELSE IF NextImageRemaining(c, assignment_id) = {}
  THEN [completed |-> TRUE, message |-> "All assigned images have been evaluated"]
  ELSE [completed |-> FALSE, message |-> "image", image_id |-> pick,
        remaining |-> Cardinality(NextImageRemaining(c, assignment_id)),
        progress |-> [evaluated |-> NextImageEvaluatedCount(c, assignment_id),
                      total |-> SumImages(NextImageScope(c, assignment_id))]]

\* a selector that records the image it serves as evaluated
get_next_imageReserving(c, assignment_id) ==
  /\ UNCHANGED inflight
  /\ \E pick \in (IF NextImageRemaining(c, assignment_id) = {} THEN {0}
                  ELSE NextImageRemaining(c, assignment_id)) :
       \E r \in {NextImageResponse(c, assignment_id, pick)} :
         Commit(IF r.completed THEN evaluations
                ELSE evaluations (+) SetToBag({[clinician |-> c, image |-> pick,
                                                is_real |-> FALSE, confidence |-> 1]}),
                assignments, is_active,
                [Response("get_next_image", c, 200, r.message)
                   EXCEPT !.image_id = IF r.completed THEN None ELSE JInt(r.image_id)])

\* lines 102-190
get_next_image(c, assignment_id) ==
  /\ UNCHANGED inflight
  /\ \E pick \in (IF NextImageRemaining(c, assignment_id) = {} THEN {0}
                  ELSE NextImageRemaining(c, assignment_id)) :
       \E r \in {NextImageResponse(c, assignment_id, pick)} :
         Commit(evaluations, assignments, is_active,
                [Response("get_next_image", c, 200, r.message)
                   EXCEPT !.image_id = IF r.completed THEN None ELSE JInt(r.image_id)])

----------------------------------------------------------------------------
(* evaluate_image: the web page (GET) and its form (POST) *)

\* a default that takes the oldest row instead
FirstAssignmentOldest(rows) == CHOOSE a \in rows : \A b \in rows : a.id <= b.id

\* assignments.first() under Meta.ordering = ['-assigned_at']: the newest row
FirstAssignment(rows) == CHOOSE a \in rows : \A b \in rows : b.id <= a.id

\* EvaluationForm.is_valid(): confidence is a choice field over 1..5
FormValid(confidence) ==
  confidence[1] = "int" /\ IntOf(confidence) \in 1..5

\* save of one assignment row as completed
SaveCompleted(asg, sel) ==
  {IF SameRow(a, sel) THEN [a EXCEPT !.is_completed = TRUE, !.completed_at = "now"] ELSE a : a \in asg}

Redirect(c, target) == Response("evaluate_image", c, 302, target)

\* what a handler run decided: its response and the rows it leaves
Outcome(resp, rows, asg) == [resp |-> resp, rows |-> rows, asg |-> asg]

\* lines 96-109: the images of the selected assignment the clinician has
\* not evaluated
EvaluateRemaining(c, sel) ==
  ImagesOf(sel.image_set) \ EvaluatedImageIds(evaluations, c, ImagesOf(sel.image_set))

\* lines 96-195 for the selected assignment `sel`
EvaluateSelected(c, sel, method, image_id, is_real, confidence) ==
  LET assigned_image_ids == ImagesOf(sel.image_set)
      remaining_image_ids == EvaluateRemaining(c, sel)
      ins == InsertEvaluation(evaluations,
               [clinician |-> c, image |-> IntOf(image_id),
                is_real |-> is_real, confidence |-> IntOf(confidence)])
  IN  IF remaining_image_ids = {}
      THEN IF ProgressIs100(get_progress(sel, evaluations))
           THEN Outcome(Redirect(c, "evaluate"), evaluations, SaveCompleted(assignments, sel))
           ELSE Outcome(Redirect(c, "evaluate"), evaluations, assignments)
      ELSE IF method = "POST"
      THEN IF ~FormValid(confidence)
           THEN Outcome(Response("evaluate_image", c, 200, "form errors"),
                        evaluations, assignments)
           ELSE IF image_id = JNull \/ IntOf(image_id) \notin Images
           THEN Outcome(Redirect(c, "Invalid image."), evaluations, assignments)
           ELSE IF IntOf(image_id) \notin assigned_image_ids
           THEN Outcome(Redirect(c, "Invalid image selection."), evaluations, assignments)
           ELSE IF EvaluationExists(evaluations, c, IntOf(image_id))
           THEN Outcome(Redirect(c, "You have already evaluated this image."),
                        evaluations, assignments)
           ELSE IF ~ins.ok
           THEN Outcome(Response("evaluate_image", c, 500, "exception"),
                        evaluations, assignments)
           ELSE IF ProgressIs100(get_progress(sel, ins.rows)) /\ ~sel.is_completed
           THEN Outcome(Redirect(c, "saved, evaluate"), ins.rows,
                        SaveCompleted(assignments, sel))
           ELSE Outcome(Redirect(c, "saved, assignment"), ins.rows, assignments)
      ELSE Outcome(Response("evaluate_image", c, 200, "evaluate.html"),
                   evaluations, assignments)

\* lines 85-94: the assignment the request works on
SelectedAssignment(active, assignment) ==
  IF assignment # NoParam THEN CHOOSE a \in active : a.id = assignment
  ELSE FirstAssignment(active)

\* the whole request: its response and the rows it leaves
EvaluateOutcome(c, method, assignment, image_id, is_real, confidence) ==
  LET active == ActiveAssignments(assignments, is_active, c)
  IN  IF active = {}
      THEN IF \E a \in assignments : a.clinician = c /\ a.is_completed
           THEN Outcome(Response("evaluate_image", c, 200,
                                 "You have completed all your assigned evaluations!"),
                        evaluations, assignments)
           ELSE Outcome(Response("evaluate_image", c, 200,
                                 "You have no image sets assigned for evaluation."),
                        evaluations, assignments)
      ELSE IF assignment # NoParam /\ ~\E a \in active : a.id = assignment
      THEN Outcome(Redirect(c, "evaluate"), evaluations, assignments)
      ELSE EvaluateSelected(c, SelectedAssignment(active, assignment),
                            method, image_id, is_real, confidence)

\* lines 166-167: the images the rendered page can show, chosen by
\* order_by('?').first() among the remaining ones
EvaluatePageImages(c, assignment) ==
  LET active == ActiveAssignments(assignments, is_active, c)
  IN  IF active = {} \/ (assignment # NoParam /\ ~\E a \in active : a.id = assignment)
      THEN {}
      ELSE EvaluateRemaining(c, SelectedAssignment(active, assignment))

\* the response with the image of the page, where a page with an image is rendered
PageResponses(c, assignment, resp) ==
  IF resp.message = "evaluate.html"
  THEN {[resp EXCEPT !.image_id = JInt(pick)] : pick \in EvaluatePageImages(c, assignment)}
  ELSE {resp}

evaluate_image(c, method, assignment, image_id, is_real, confidence) ==
  /\ UNCHANGED inflight
  /\ \E out \in {EvaluateOutcome(c, method, assignment, image_id, is_real, confidence)} :
       \E resp \in PageResponses(c, assignment, out.resp) :
         Commit(out.rows, out.asg, is_active, resp)

----------------------------------------------------------------------------
(* AssignmentAdmin.save_model and the ImageSet change form *)

\* unique_together (clinician, image_set), validated by the admin form
AssignmentPairExists(asg, c, s) ==
  \E a \in asg : a.clinician = c /\ a.image_set = s

\* lines 541-544 on the object the form produced
CompleteIfDone(obj, evs) ==
  IF ProgressIs100(get_progress(obj, evs)) /\ ~obj.is_completed
  THEN [obj EXCEPT !.is_completed = TRUE, !.completed_at = "now"]
  ELSE obj

\* the add form: a new Assignment for (c, s) with the posted is_completed
save_model_add(c, s, form_is_completed) ==
  LET obj == [id |-> NewId(assignments, c), clinician |-> c, image_set |-> s,
              is_completed |-> form_is_completed, completed_at |-> None,
              assigned_images |-> {}]
  IN  /\ UNCHANGED inflight
      /\ IF AssignmentPairExists(assignments, c, s)
         THEN Commit(evaluations, assignments, is_active,
                     Response("save_model", c, 200, "form errors"))
         ELSE Commit(evaluations, assignments \cup {CompleteIfDone(obj, evaluations)}, is_active,
                     Response("save_model", c, 302, "added"))

\* the change form of row `a`, posting is_completed
save_model_change(a, form_is_completed) ==
  LET obj == [a EXCEPT !.is_completed = form_is_completed]
  IN  /\ UNCHANGED inflight
      /\ Commit(evaluations, (assignments \ {a}) \cup {CompleteIfDone(obj, evaluations)},
                is_active, Response("save_model", a.clinician, 302, "changed"))

\* ImageSetAdmin change form: is_active is an editable field
set_is_active(s, b) ==
  /\ UNCHANGED inflight
  /\ Commit(evaluations, assignments, [is_active EXCEPT ![s] = b],
            Response("imageset_change", None, 302, "changed"))

----------------------------------------------------------------------------
(* admin_panel: the per-assignment statistics page, a pure read *)

\* the keys of confidence_counts
ConfidenceLevels == 1..5

\* Python's None where a percentage is expected
Null == [null |-> TRUE]

\* n / d * 100 as the exact fraction
Percent(n, d) == [num |-> n * 100, den |-> d]

\* the number of rows of the bag evs among the rows S
RowCount(evs, S) == BagCardinality([e \in S |-> evs[e]])

\* lines 231-234: Evaluation.objects.filter(clinician=assignment.clinician,
\* image__image_set=assignment.image_set)
PanelEvaluations(a, evs) ==
  {e \in DOMAIN evs : e.clinician = a.clinician /\ e.image \in ImagesOf(a.image_set)}

\* lines 236-303: the entry of assignments_data for one assignment
PanelRow(a, evs) ==
  LET rows == PanelEvaluations(a, evs)
      total == RowCount(evs, rows)
      total_images == Cardinality(ImagesOf(a.image_set))
      real_evaluated == RowCount(evs, {e \in rows : ImageIsReal(e.image)})
      real_correct == RowCount(evs, {e \in rows : ImageIsReal(e.image) /\ e.is_real})
      synth_evaluated == RowCount(evs, {e \in rows : ~ImageIsReal(e.image)})
      synth_correct == RowCount(evs, {e \in rows : ~ImageIsReal(e.image) /\ ~e.is_real})
      correct == real_correct + synth_correct
  IN  IF total = 0
      THEN [clinician |-> a.clinician, image_set |-> a.image_set,
            is_completed |-> a.is_completed, total_images |-> total_images,
            total_evaluations |-> 0, progress |-> Percent(0, 1),
            accuracy |-> Null, real_accuracy |-> Null, synth_accuracy |-> Null,
            confidence_dist |-> [level \in ConfidenceLevels |-> 0]]
      ELSE [clinician |-> a.clinician, image_set |-> a.image_set,
            is_completed |-> a.is_completed, total_images |-> total_images,
            total_evaluations |-> total,
            progress |-> IF total_images > 0 THEN Percent(total, total_images)
                         ELSE Percent(0, 1),
            correct_evaluations |-> correct,
            incorrect_evaluations |-> total - correct,
            accuracy |-> Percent(correct, total),
            real_evaluated |-> real_evaluated, real_correct |-> real_correct,
            real_accuracy |-> IF real_evaluated > 0
                              THEN Percent(real_correct, real_evaluated) ELSE Null,
            synth_evaluated |-> synth_evaluated, synth_correct |-> synth_correct,
            synth_accuracy |-> IF synth_evaluated > 0
                               THEN Percent(synth_correct, synth_evaluated) ELSE Null,
            confidence_dist |->
              [level \in ConfidenceLevels |->
                 RowCount(evs, {e \in rows : e.confidence = level})]]

\* line 272: confidence_counts[eval.confidence] += 1 raises KeyError for a
\* stored confidence that is not one of the keys
PanelRaises(asg, evs) ==
  \E a \in asg : \E e \in PanelEvaluations(a, evs) : e.confidence \notin ConfidenceLevels

\* the response of the page: the redirect of a non-superuser, the server
\* error of an exception nothing catches, or the rendered rows
PanelOutcome(is_superuser, asg, evs) ==
  IF ~is_superuser
  THEN [op |-> "admin_panel", clinician |-> None, image_id |-> None,
        status |-> 302, message |-> "home", rows |-> {}]
  ELSE IF PanelRaises(asg, evs)
  THEN [op |-> "admin_panel", clinician |-> None, image_id |-> None,
        status |-> 500, message |-> "KeyError", rows |-> {}]
  ELSE [op |-> "admin_panel", clinician |-> None, image_id |-> None,
        status |-> 200, message |-> "admin_panel.html",
        rows |-> {PanelRow(a, evs) : a \in asg}]

admin_panel(is_superuser) ==
  /\ UNCHANGED inflight
  /\ Commit(evaluations, assignments, is_active,
            PanelOutcome(is_superuser, assignments, evaluations))

----------------------------------------------------------------------------
(* ImageSetAdmin.assign_split_action: the splitter *)

\* ImageSet.Meta.ordering = ['-created_at']: the order a queryset iterates in
ImageSetOrder == <<"s2", "s1">>

\* lines 410-411: k, m = divmod(len(images), n); chunk i (0-based) of the list
\* the slices without the remainder terms min(i, m)
ChunkNoRemainder(image_list, n, i) ==
  LET k == Len(image_list) \div n
  IN  SubSeq(image_list, i * k + 1, (i + 1) * k)

\* lines 410-411: chunk i (from 0) of image_list cut for n clinicians
Chunk(image_list, n, i) ==
  LET k == Len(image_list) \div n
      m == Len(image_list) % n
  IN  SubSeq(image_list, i * k + Min(i, m) + 1, (i + 1) * k + Min(i + 1, m))

SeqToSet(q) == {q[i] : i \in 1..Len(q)}

\* the splitter's save with is_completed set instead of cleared
AssignSubsetTicks(asg, c, s, images_subset) ==
  LET found == {a \in asg : a.clinician = c /\ a.image_set = s}
      fresh == [id |-> NewId(asg, c), clinician |-> c, image_set |-> s,
                is_completed |-> TRUE, completed_at |-> None,
                assigned_images |-> images_subset]
  IN  IF found = {} THEN asg \cup {fresh}
      ELSE LET a == CHOOSE x \in found : TRUE
           IN  (asg \ {a}) \cup {[a EXCEPT !.assigned_images = images_subset,
                                           !.is_completed = TRUE]}

\* the splitter adding the chunk to the subset already stored
AssignSubsetMerge(asg, c, s, images_subset) ==
  LET found == {a \in asg : a.clinician = c /\ a.image_set = s}
      fresh == [id |-> NewId(asg, c), clinician |-> c, image_set |-> s,
                is_completed |-> FALSE, completed_at |-> None,
                assigned_images |-> images_subset]
  IN  IF found = {} THEN asg \cup {fresh}
      ELSE LET a == CHOOSE x \in found : TRUE
           IN  (asg \ {a}) \cup {[a EXCEPT !.assigned_images = @ \cup images_subset,
                                           !.is_completed = FALSE]}

\* lines 418-428 for one clinician: get_or_create, set the subset, reset, save
AssignSubset(asg, c, s, images_subset) ==
  LET found == {a \in asg : a.clinician = c /\ a.image_set = s}
      fresh == [id |-> NewId(asg, c), clinician |-> c, image_set |-> s,
                is_completed |-> FALSE, completed_at |-> None,
                assigned_images |-> images_subset]
  IN  IF found = {} THEN asg \cup {fresh}
      ELSE LET a == CHOOSE x \in found : TRUE
           IN  (asg \ {a}) \cup {[a EXCEPT !.assigned_images = images_subset,
                                           !.is_completed = FALSE]}

RECURSIVE AssignChunks(_, _, _, _, _)
\* lines 414-434: clinicians i..n of the list, each with its chunk
AssignChunks(asg, s, clinicians, shuffled_images, i) ==
  IF i > Len(clinicians) THEN asg
  ELSE AssignChunks(
         AssignSubset(asg, clinicians[i], s,
                      SeqToSet(Chunk(shuffled_images, Len(clinicians), i - 1))),
         s, clinicians, shuffled_images, i + 1)

RECURSIVE SplitImageSets(_, _, _, _, _)
RECURSIVE SplitImageSetsNoSkip(_, _, _, _, _)
\* the loop without the `if not images: continue` of lines 405-406
SplitImageSetsNoSkip(acc, queryset, clinicians, shuffled, j) ==
  IF j > Len(ImageSetOrder) THEN acc
  ELSE LET s == ImageSetOrder[j]
       IN  IF s \notin queryset
           THEN SplitImageSetsNoSkip(acc, queryset, clinicians, shuffled, j + 1)
           ELSE SplitImageSetsNoSkip(
                  [rows |-> AssignChunks(acc.rows, s, clinicians, shuffled[s], 1),
                   success_count |-> acc.success_count + 1,
                   notifications |-> acc.notifications + Len(clinicians)],
                  queryset, clinicians, shuffled, j + 1)

\* lines 402-436: the image sets of the queryset from position j on; returns
\* the rows, the number of image sets split and of notifications sent
SplitImageSets(acc, queryset, clinicians, shuffled, j) ==
  IF j > Len(ImageSetOrder) THEN acc
  ELSE LET s == ImageSetOrder[j]
       IN  IF s \notin queryset \/ ImagesOf(s) = {}
           THEN SplitImageSets(acc, queryset, clinicians, shuffled, j + 1)
           ELSE SplitImageSets(
                  [rows |-> AssignChunks(acc.rows, s, clinicians, shuffled[s], 1),
                   success_count |-> acc.success_count + 1,
                   notifications |-> acc.notifications + Len(clinicians)],
                  queryset, clinicians, shuffled, j + 1)

\* random.shuffle(images): any order of each image set's images
Shuffles ==
  {[s \in ImageSets |-> IF s = "s1" THEN o1 ELSE o2] :
     o1 \in Orderings(ImagesOf("s1")), o2 \in Orderings(ImagesOf("s2"))}

\* the ids the selection form can post: the clinicians and one unknown id
ClinicianIdInputs == {{}, {"cX"}, {"c1"}, {"c2"}, {"c1", "c2"}}

\* message_user / render of the action: the message and its level, the image
\* sets split and the notification e-mails attempted
SplitResponse(level, message, success_count, notifications) ==
  [op |-> "assign_split_action", clinician |-> None, image_id |-> None,
   status |-> 200, message |-> message, level |-> level,
   success_count |-> success_count, notifications |-> notifications]

\* lines 438-445: the feedback of a run that reached the loop
SplitSuccess(acc) ==
  [resp |-> SplitResponse("info", "Successfully split and assigned",
                          acc.success_count, acc.notifications),
   rows |-> acc.rows]

\* the action with ids that match no clinician read as "every clinician"
SplitOutcomesUnknownAsAll(queryset, post, clinician_ids, staff) ==
  IF ~post
  THEN {[resp |-> SplitResponse("none", "assign_split_form.html", 0, 0),
         rows |-> assignments]}
  ELSE IF clinician_ids = {}
  THEN {[resp |-> SplitResponse("error", "No clinicians selected.", 0, 0),
         rows |-> assignments]}
  ELSE {SplitSuccess(SplitImageSets(
                       [rows |-> assignments, success_count |-> 0, notifications |-> 0],
                       queryset, clinicians, shuffled, 1)) :
          shuffled \in Shuffles,
          clinicians \in Orderings(IF clinician_ids \cap staff = {} THEN staff
                                   ELSE clinician_ids \cap staff)}

\* the responses the action can give from the current state, each with the
\* Assignment rows it leaves, run against the Clinician table `staff`
SplitOutcomes(queryset, post, clinician_ids, staff) ==
  IF ~post
  THEN {[resp |-> SplitResponse("none", "assign_split_form.html", 0, 0),
         rows |-> assignments]}
  ELSE IF clinician_ids = {}
  THEN {[resp |-> SplitResponse("error", "No clinicians selected.", 0, 0),
         rows |-> assignments]}
  ELSE IF clinician_ids \cap staff = {}
  THEN {[resp |-> SplitResponse("error", "Selected clinicians not found.", 0, 0),
         rows |-> assignments]}
  ELSE {SplitSuccess(SplitImageSets(
                       [rows |-> assignments, success_count |-> 0, notifications |-> 0],
                       queryset, clinicians, shuffled, 1)) :
          shuffled \in Shuffles, clinicians \in Orderings(clinician_ids \cap staff)}

\* a splitter that deletes the evaluations left outside the new subsets
SplitRunPruning(queryset, post, clinician_ids, staff) ==
  /\ UNCHANGED inflight
  /\ \E out \in SplitOutcomes(queryset, post, clinician_ids, staff) :
       LET kept == {e \in DOMAIN evaluations :
                      \A a \in out.rows :
                        (a.clinician = e.clinician /\ e.image \in ImagesOf(a.image_set))
                        => e.image \in EffectiveScope(a)}
       IN  Commit([e \in kept |-> evaluations[e]], out.rows, is_active, out.resp)

\* lines 380-457 as one step
SplitRun(queryset, post, clinician_ids, staff) ==
  /\ UNCHANGED inflight
  /\ \E out \in SplitOutcomes(queryset, post, clinician_ids, staff) :
       Commit(evaluations, out.rows, is_active, out.resp)

assign_split_action(queryset, post, clinician_ids) ==
  SplitRun(queryset, post, clinician_ids, Clinicians)

----------------------------------------------------------------------------

Init ==
  /\ images \in Worlds
  /\ evaluations = EmptyBag
  /\ assignments = {}
  /\ is_active = [s \in ImageSets |-> TRUE]
  /\ inflight = [w \in Workers |-> Idle]
  /\ last = NoResponse
  /\ nops = 0
  /\ invitations = [t \in Tokens |-> "absent"]
  /\ users = {}

\* the previous response is out
Ready == last = NoResponse

\* a new request is taken: the previous response is out and the budget of
\* writing requests is not used up
Accepting == Ready /\ nops < MaxOps

SubmitStep ==
  /\ Accepting
  /\   \E c \in Clinicians, body \in SubmitInputs :
         submit_evaluation(c, body[1], body[2], body[3])

NextImageStep ==
  /\ Accepting
  /\   \E c \in Clinicians, aid \in AssignmentIdInputs : get_next_image(c, aid)

EvaluatePageStep ==
  /\ Accepting
  /\   \E c \in Clinicians, aid \in AssignmentIdInputs :
         evaluate_image(c, "GET", aid, JNull, FALSE, JNull)

EvaluateFormStep ==
  /\ Accepting
  /\   \E c \in Clinicians, aid \in AssignmentIdInputs, body \in FormInputs :
         evaluate_image(c, "POST", aid, body[1], body[2], body[3])

AdminAddStep ==
  /\ Accepting
  /\   \E c \in Clinicians, s \in ImageSets, b \in BOOLEAN : save_model_add(c, s, b)

AdminChangeStep ==
  /\ Accepting
  /\   \E a \in assignments, b \in BOOLEAN : save_model_change(a, b)

SetActiveStep ==
  /\ Accepting
  /\   \E s \in ImageSets, b \in BOOLEAN : set_is_active(s, b)

AdminPanelStep ==
  /\ Accepting
  /\ \E is_superuser \in BOOLEAN : admin_panel(is_superuser)

SplitStep ==
  /\ Accepting
  /\   \E queryset \in (SUBSET ImageSets) \ {{}} :
         \/ assign_split_action(queryset, FALSE, {})
         \/ \E clinician_ids \in ClinicianIdInputs : assign_split_action(queryset, TRUE, clinician_ids)

\* the response leaves; the worker takes the next request
Deliver ==
  /\ last # NoResponse
  /\ last' = NoResponse
  /\ UNCHANGED <<images, evaluations, assignments, is_active, inflight, nops, invitations, users>>

Next ==
  \/ SubmitStep
  \/ NextImageStep
  \/ EvaluatePageStep
  \/ EvaluateFormStep
  \/ AdminAddStep
  \/ AdminChangeStep
  \/ SetActiveStep
  \/ SplitStep
  \/ AdminPanelStep
  \/ Deliver

Spec == Init /\ [][Next]_vars

----------------------------------------------------------------------------
(* Concurrent submit_evaluation requests: each query of the request is a    *)
(* step of its own (autocommit), so two workers interleave between the      *)
(* existence check, the INSERT and the completion loop.                     *)

\* lines 41-74 on worker w: the checks, and the queryset cached at line 64
SubmitBegin(w, c, image_id, is_real, confidence) ==
  LET active == ActiveAssignments(assignments, is_active, c)
      pre == SubmitPrecheck(c, image_id, is_real, confidence, evaluations, active)
  IN  /\ inflight[w] = Idle
      /\ IF pre.status # 0
         THEN /\ last' = pre
              /\ UNCHANGED <<inflight, nops>>
         ELSE /\ nops' = nops + 1
              /\ last' = last
              /\ inflight' = [inflight EXCEPT ![w] =
                   [pc |-> "insert", clinician |-> c, image_id |-> image_id,
                    is_real |-> is_real, confidence |-> confidence, snapshot |-> active]]
      /\ UNCHANGED <<images, evaluations, assignments, is_active, invitations, users>>

\* lines 77-82 on worker w: the INSERT, or the exception caught at line 99
SubmitInsert(w) ==
  LET r == inflight[w]
      ins == CreateEvaluation(evaluations, r.clinician, r.image_id, r.is_real, r.confidence)
  IN  /\ r # Idle
      /\ r.pc = "insert"
      /\ IF ins.ok
         THEN /\ evaluations' = ins.rows
              /\ inflight' = [inflight EXCEPT ![w] = [r EXCEPT !.pc = "complete"]]
              /\ last' = last
         ELSE /\ last' = SubmitResponse(r.clinician, r.image_id, 500, "exception")
              /\ inflight' = [inflight EXCEPT ![w] = Idle]
              /\ UNCHANGED evaluations
      /\ UNCHANGED <<images, assignments, is_active, nops, invitations, users>>

\* lines 85-95 on worker w: the completion loop and the success response
SubmitComplete(w) ==
  LET r == inflight[w]
  IN  /\ r # Idle
      /\ r.pc = "complete"
      /\ assignments' = MarkCompleted(assignments, evaluations, r.snapshot)
      /\ last' = SubmitResponse(r.clinician, r.image_id, 200, "Evaluation submitted successfully")
      /\ inflight' = [inflight EXCEPT ![w] = Idle]
      /\ UNCHANGED <<images, evaluations, is_active, nops, invitations, users>>

\* the worker the server hands the next request to: w1 when it is free
FreeWorker == IF inflight["w1"] = Idle THEN "w1" ELSE "w2"

\* the request bodies of the concurrent requests
RaceInputs ==
  {<<JInt(i), JBool(b), JInt(1)>> : i \in {1, 2, 9}, b \in BOOLEAN}
  \cup {<<JInt(1), JBool(TRUE), JInt(0)>>, <<JNull, JBool(TRUE), JInt(1)>>}

SubmitBeginStep ==
  /\ Accepting
  /\ \E c \in Clinicians, body \in RaceInputs :
       SubmitBegin(FreeWorker, c, body[1], body[2], body[3])

SubmitInsertStep ==
  /\ Ready
  /\ \E w \in Workers : SubmitInsert(w)

SubmitCompleteStep ==
  /\ Ready
  /\ \E w \in Workers : SubmitComplete(w)

NextRace ==
  \/ SubmitBeginStep
  \/ SubmitInsertStep
  \/ SubmitCompleteStep
  \/ NextImageStep
  \/ EvaluateFormStep
  \/ SplitStep
  \/ Deliver

\* the race is explored on the image table with the fewest rows
InitRace == Init /\ images["s2"] = {}

SpecRace == InitRace /\ [][NextRace]_vars

----------------------------------------------------------------------------
(* submit_evaluation with a failing query. The handler runs its queries in  *)
(* autocommit and catches every exception at lines 99-100, so a query that  *)
(* raises (a lost connection, a locked database) ends the request with 500  *)
(* and whatever was written before it stays written.                       *)

\* the outcomes of a request one of whose queries raises: before the INSERT
\* of lines 77-82, or after it with the rows of `saved` already saved by the
\* loop of lines 85-89
SubmitFaultOutcomes(c, image_id, is_real, confidence) ==
  LET active == ActiveAssignments(assignments, is_active, c)
      pre == SubmitPrecheck(c, image_id, is_real, confidence, evaluations, active)
      ins == CreateEvaluation(evaluations, c, image_id, is_real, confidence)
      failed == SubmitResponse(c, image_id, 500, "exception")
  IN  IF pre.status # 0 \/ ~ins.ok
      THEN {[resp |-> failed, rows |-> evaluations, asg |-> assignments]}
      ELSE {[resp |-> failed, rows |-> evaluations, asg |-> assignments]}
           \cup {[resp |-> failed, rows |-> ins.rows,
                  asg |-> MarkCompleted(assignments, ins.rows, saved)] :
                   saved \in (SUBSET active) \ {active}}

submit_evaluation_fault(c, image_id, is_real, confidence) ==
  /\ UNCHANGED inflight
  /\ \E out \in SubmitFaultOutcomes(c, image_id, is_real, confidence) :
       Commit(out.rows, out.asg, is_active, out.resp)

SubmitFaultStep ==
  /\ Accepting
  /\ \E c \in Clinicians, body \in SubmitInputs :
       submit_evaluation_fault(c, body[1], body[2], body[3])

NextFault ==
  \/ SubmitStep
  \/ SubmitFaultStep
  \/ AdminAddStep
  \/ SplitStep
  \/ Deliver

SpecFault == InitRace /\ [][NextFault]_vars

----------------------------------------------------------------------------
(* The evaluate page with a browser that follows redirect('evaluate'): the  *)
(* response of views.py:91 and views.py:126 makes the client request the    *)
(* page again, without the assignment parameter.                            *)

\* the last response sends the browser to the evaluate page
RedirectedToEvaluate ==
  /\ last.op = "evaluate_image"
  /\ last.status = 302
  /\ last.message = "evaluate"

\* the request the browser sends when it is told to go to the evaluate page
FollowedRequest(c) == Response("browser", c, 0, "GET evaluate")

\* the browser obeys the Location header
FollowRedirect ==
  /\ RedirectedToEvaluate
  /\ last' = FollowedRequest(last.clinician)
  /\ UNCHANGED <<images, evaluations, assignments, is_active, inflight, nops, invitations, users>>

\* the view serves the followed request
ServeFollowed ==
  /\ last.op = "browser"
  /\ evaluate_image(last.clinician, "GET", NoParam, JNull, FALSE, JNull)

\* any other response is shown and the worker takes the next request
DeliverShown ==
  /\ ~RedirectedToEvaluate
  /\ last.op # "browser"
  /\ Deliver

NextRedirect ==
  \/ AdminAddStep
  \/ SubmitStep
  \/ EvaluatePageStep
  \/ FollowRedirect
  \/ ServeFollowed
  \/ DeliverShown

SpecRedirect ==
  /\ InitRace
  /\ [][NextRedirect]_vars
  /\ WF_vars(FollowRedirect)
  /\ WF_vars(ServeFollowed)

----------------------------------------------------------------------------
(* Invitation-gated registration: register, validate_token and the          *)
(* Invitation rows the administrator keeps in the admin console.            *)

\* the token strings a request can carry: none, not a UUID, a UUID padded
\* with blanks, and the UUIDs themselves
TokenInputs == {"", "zz", " t1 "} \cup Tokens

\* str.strip()
Strip(tok) == IF tok = " t1 " THEN "t1" ELSE tok

\* uuid.UUID(tok) does not raise
IsUUID(tok) == tok \in Tokens

\* Invitation.objects.get(token=tok, is_used=False) finds a row
UnusedInvitation(inv, tok) == IsUUID(tok) /\ inv[tok] = "unused"

\* the registration forms posted: `complete` stands for the other required
\* fields and the two passwords being filled in and acceptable
RegistrationForms ==
  [username : {"u1", "u2"}, email : {"", "e1", "e2"}, complete : BOOLEAN]

\* ClinicianRegistrationForm.is_valid(): required fields, unique username
\* (UserCreationForm) and clean_email
RegistrationFormValid(form, usr) ==
  /\ form.complete
  /\ form.email # ""
  /\ ~\E u \in usr : u.username = form.username
  /\ ~\E u \in usr : u.email = form.email

\* a response of register or validate_token
TokenResponse(op, tok, status, message) ==
  [op |-> op, clinician |-> None, image_id |-> None, status |-> status,
   message |-> message, token |-> tok]

\* what a run of register or of the admin leaves: response, Invitation rows
\* and Clinician rows
Account(resp, inv, usr) == [resp |-> resp, invitations |-> inv, users |-> usr]

\* a registration that spends the invitation before it validates the form
RegisterOutcomeMarkFirst(method, tok, form) ==
  LET page(message) ==
        Account(TokenResponse("register", tok, 200, message), invitations, users)
  IN  IF method = "GET"
      THEN IF tok # "" /\ ~UnusedInvitation(invitations, tok)
           THEN page("Invalid or used invitation token.")
           ELSE page("register.html")
      ELSE IF tok = "" THEN page("Invitation token required.")
      ELSE IF ~IsUUID(Strip(tok)) THEN page("Invalid token format.")
      ELSE IF ~UnusedInvitation(invitations, Strip(tok))
           THEN page("Invalid or used invitation token.")
      ELSE IF RegistrationFormValid(form, users)
           THEN Account(TokenResponse("register", tok, 302, "evaluate"),
                        [invitations EXCEPT ![Strip(tok)] = "used"],
                        users \cup {[username |-> form.username, email |-> form.email]})
      ELSE Account(TokenResponse("register", tok, 200, "register.html, form errors"),
                   [invitations EXCEPT ![Strip(tok)] = "used"], users)

\* a registration that creates the user and leaves the invitation unused
RegisterOutcomeNoMark(method, tok, form) ==
  LET page(message) ==
        Account(TokenResponse("register", tok, 200, message), invitations, users)
  IN  IF method = "GET"
      THEN IF tok # "" /\ ~UnusedInvitation(invitations, tok)
           THEN page("Invalid or used invitation token.")
           ELSE page("register.html")
      ELSE IF tok = "" THEN page("Invitation token required.")
      ELSE IF ~IsUUID(Strip(tok)) THEN page("Invalid token format.")
      ELSE IF ~UnusedInvitation(invitations, Strip(tok))
           THEN page("Invalid or used invitation token.")
      ELSE IF RegistrationFormValid(form, users)
           THEN Account(TokenResponse("register", tok, 302, "evaluate"),
                        invitations,
                        users \cup {[username |-> form.username, email |-> form.email]})
      ELSE page("register.html, form errors")

\* views.py lines 14-56: the response and the rows the request leaves
RegisterOutcome(method, tok, form) ==
  LET page(message) ==
        Account(TokenResponse("register", tok, 200, message), invitations, users)
  IN  IF method = "GET"
      THEN IF tok # "" /\ ~UnusedInvitation(invitations, tok)
           THEN page("Invalid or used invitation token.")
           ELSE page("register.html")
      ELSE IF tok = "" THEN page("Invitation token required.")
      ELSE IF ~IsUUID(Strip(tok)) THEN page("Invalid token format.")
      ELSE IF ~UnusedInvitation(invitations, Strip(tok))
           THEN page("Invalid or used invitation token.")
      ELSE IF RegistrationFormValid(form, users)
           THEN Account(TokenResponse("register", tok, 302, "evaluate"),
                        [invitations EXCEPT ![Strip(tok)] = "used"],
                        users \cup {[username |-> form.username, email |-> form.email]})
      ELSE page("register.html, form errors")

\* the bodies posted to validate_token: a JSON object with a string token,
\* one with a null token, and a body that is not JSON
ValidateInputs == {JStr(tok) : tok \in TokenInputs} \cup {JNull, <<"not json">>}

\* api_views.py lines 12-34: the JSON answer; a token that is not a string
\* has no strip() and the AttributeError leaves the view uncaught
ValidateOutcome(body) ==
  LET answer(tok, valid, message) ==
        TokenResponse("validate_token", tok, 200, message) @@ [valid |-> valid]
  IN  IF body = <<"not json">>
      THEN TokenResponse("validate_token", "", 400, "Invalid request") @@ [valid |-> FALSE]
      ELSE IF body = JNull
      THEN TokenResponse("validate_token", "", 500, "AttributeError")
      ELSE LET token_str == Strip(body[2])
           IN  IF token_str = "" THEN answer(token_str, FALSE, "Token is required")
               ELSE IF ~IsUUID(token_str)
                    THEN answer(token_str, FALSE, "Invalid or already used token")
               ELSE IF UnusedInvitation(invitations, token_str)
                    THEN answer(token_str, TRUE, "Valid invitation token")
               ELSE answer(token_str, FALSE, "Invalid or already used token")

\* what a run on the Invitation and Clinician tables leaves behind
CommitAccounts(out) ==
  /\ invitations' = out.invitations
  /\ users' = out.users
  /\ last' = out.resp
  /\ nops' = IF out.invitations # invitations \/ out.users # users
             THEN nops + 1 ELSE nops
  /\ UNCHANGED <<images, evaluations, assignments, is_active, inflight>>

register(method, tok, form) ==
  \E out \in {RegisterOutcome(method, tok, form)} : CommitAccounts(out)

validate_token(body) ==
  CommitAccounts(Account(ValidateOutcome(body), invitations, users))

\* InvitationAdmin add form: a new row with a fresh uuid4 token
invitation_add(tok, is_used) ==
  /\ invitations[tok] = "absent"
  /\ CommitAccounts(Account(TokenResponse("invitation_add", tok, 302, "added"),
                            [invitations EXCEPT ![tok] = IF is_used THEN "used" ELSE "unused"],
                            users))

\* InvitationAdmin change form: is_used is an editable checkbox
invitation_change(tok, is_used) ==
  /\ invitations[tok] # "absent"
  /\ CommitAccounts(Account(TokenResponse("invitation_change", tok, 302, "changed"),
                            [invitations EXCEPT ![tok] = IF is_used THEN "used" ELSE "unused"],
                            users))

RegisterStep ==
  /\ Accepting
  /\ \E method \in {"GET", "POST"}, tok \in TokenInputs, form \in RegistrationForms :
       register(method, tok, form)

ValidateTokenStep ==
  /\ Accepting
  /\ \E body \in ValidateInputs : validate_token(body)

InvitationAddStep ==
  /\ Accepting
  /\ \E tok \in Tokens, is_used \in BOOLEAN : invitation_add(tok, is_used)

InvitationChangeStep ==
  /\ Accepting
  /\ \E tok \in Tokens, is_used \in BOOLEAN : invitation_change(tok, is_used)

NextRegister ==
  \/ RegisterStep
  \/ ValidateTokenStep
  \/ InvitationAddStep
  \/ InvitationChangeStep
  \/ Deliver

SpecRegister == InitRace /\ [][NextRegister]_vars

----------------------------------------------------------------------------
(* The splitter on larger image sets and clinician lists: a database with   *)
(* three clinicians and one image set of up to MaxImages images.           *)

Staff == {"c1", "c2", "c3"}

InitSplit ==
  /\ images \in {[s \in ImageSets |-> IF s = "s1" THEN 1..n ELSE {}] : n \in 1..MaxImages}
  /\ evaluations = EmptyBag
  /\ assignments = {}
  /\ is_active = [s \in ImageSets |-> TRUE]
  /\ inflight = [w \in Workers |-> Idle]
  /\ last = NoResponse
  /\ nops = 0
  /\ invitations = [t \in Tokens |-> "absent"]
  /\ users = {}

SplitStaffStep ==
  /\ Ready
  /\ nops < MaxSplits
  /\ \E clinician_ids \in (SUBSET Staff) \cup {{"cX"}} :
       SplitRun(ImageSets, TRUE, clinician_ids, Staff)

NextSplit ==
  \/ SplitStaffStep
  \/ Deliver

SpecSplit == InitSplit /\ [][NextSplit]_vars

----------------------------------------------------------------------------
(* A clinician working through the API: get_next_image, then                *)
(* submit_evaluation of the image it returned, again and again, while the   *)
(* administrator runs the splitter a bounded number of times, on one image  *)
(* set of up to MaxImages images.                                           *)

\* the clinician asks for the next image, without assignment_id
LoopAsk(c) ==
  /\ Ready
  /\ get_next_image(c, NoParam)

\* get_next_image has returned an image to the clinician
ImageReturned ==
  /\ last.op = "get_next_image"
  /\ last.message = "image"

\* the clinician submits an evaluation of the returned image; the judgement
\* itself plays no part in selection or completion
LoopSubmit ==
  /\ ImageReturned
  /\ submit_evaluation(last.clinician, last.image_id, JBool(TRUE), JInt(1))

\* every other response leaves and the next request is taken
LoopDeliver ==
  /\ ~ImageReturned
  /\ Deliver

NextLoop ==
  \/ \E c \in Clinicians : LoopAsk(c)
  \/ LoopSubmit
  \/ SplitStep
  \/ LoopDeliver

\* the clinicians keep calling, and every response is acted upon
LoopFairness ==
  /\ \A c \in Clinicians : SF_vars(LoopAsk(c))
  /\ WF_vars(LoopSubmit)
  /\ WF_vars(LoopDeliver)

SpecLoop == InitSplit /\ [][NextLoop]_vars /\ LoopFairness

----------------------------------------------------------------------------
(* Properties *)

\* C1: in every reachable state, also with concurrent submissions, there is
\* at most one Evaluation row for each (clinician, image) pair.
C1_UniqueEvaluation ==
  \A c \in Clinicians, i \in Images : CountEvaluations(evaluations, c, {i}) <= 1

\* a pair has its row and the web form has just refused a second one
C1_Witness ==
  /\ last.op = "evaluate_image"
  /\ last.message = "You have already evaluated this image."
  /\ \E c \in Clinicians, i \in Images : CountEvaluations(evaluations, c, {i}) = 1

\* C2: a submit_evaluation request that passed the existence check and reaches
\* its INSERT when a row for its (clinician, image) pair is already stored is
\* rejected by the store: no row is added or changed, exactly one row exists
\* for the pair, and the request ends with a failure response (status 500).
C2_LoserRejected ==
  [][\A w \in Workers :
       (/\ inflight[w].pc = "insert"
        /\ EvaluationExists(evaluations, inflight[w].clinician, IntOf(inflight[w].image_id))
        /\ inflight'[w] # inflight[w])
       => /\ evaluations' = evaluations
          /\ CountEvaluations(evaluations', inflight[w].clinician,
                              {IntOf(inflight[w].image_id)}) = 1
          /\ inflight'[w] = Idle
          /\ last'.op = "submit_evaluation"
          /\ last'.status = 500]_vars

\* the loser has just been answered 500 while the winner, whose row is the
\* only one stored, is still before its completion loop
C2_Witness ==
  /\ last.op = "submit_evaluation"
  /\ last.status = 500
  /\ BagCardinality(evaluations) = 1
  /\ \E w \in Workers :
       /\ inflight[w].pc = "complete"
       /\ inflight[w].clinician = last.clinician
       /\ inflight[w].image_id = last.image_id
       /\ EvaluationExists(evaluations, inflight[w].clinician, IntOf(inflight[w].image_id))

\* the image is in the image set of one of the clinician's assignments `rows`
\* and, where that assignment has a subset, in the subset
InScopeOf(rows, i) ==
  \E a \in rows :
    i \in ImagesOf(a.image_set) /\ (a.assigned_images # {} => i \in a.assigned_images)

\* C3: in every reachable state, every Evaluation row is for an image the
\* clinician is authorized to see: an image of the image set of one of the
\* clinician's assignments and, if that assignment has a non-empty subset,
\* of that subset.
C3_Original ==
  \A e \in DOMAIN evaluations :
    InScopeOf({a \in assignments : a.clinician = e.clinician}, e.image)

\* well-formed verdicts of a request body: a boolean and a confidence in 1..5
GoodVerdicts == {<<JBool(b), JInt(k)>> : b \in BOOLEAN, k \in {1, 5}}

\* C4: submit_evaluation for an existing image that is not reachable through
\* an active assignment of the clinician (not completed, image set active,
\* image inside the subset when there is one) is answered 403 and creates
\* no Evaluation row.
C4_Original ==
  Ready =>
    \A c \in Clinicians, i \in Images, v \in GoodVerdicts :
      ~InScopeOf(ActiveAssignments(assignments, is_active, c), i)
      => LET out == SubmitOutcome(c, JInt(i), v[1], v[2])
         IN  out.resp.status = 403 /\ out.rows = evaluations

\* the image sets' images an active assignment of the clinician opens
ActiveSetImages(c) ==
  UNION {ImagesOf(a.image_set) : a \in ActiveAssignments(assignments, is_active, c)}

\* the (is_real, confidence) pairs of request bodies, well-formed or not
AnyVerdicts ==
  GoodVerdicts \cup {<<JBool(TRUE), JInt(6)>>, <<JBool(TRUE), JInt(0)>>,
                     <<JBool(TRUE), JInt(-1)>>, <<JBool(TRUE), JStr("abc")>>,
                     <<JNull, JInt(1)>>, <<JBool(TRUE), JNull>>}

\* C5 as stated: for every (clinician, image) pair that already has an
\* Evaluation, a second well-formed submission is answered with the
\* 'already evaluated' condition in every state and leaves the rows unchanged.
C5_Original ==
  Ready =>
    \A c \in Clinicians, i \in Images, v \in GoodVerdicts :
      EvaluationExists(evaluations, c, i)
      => LET out == SubmitOutcome(c, JInt(i), v[1], v[2])
         IN  /\ out.resp.status = 400
             /\ out.resp.message = "Image already evaluated"
             /\ out.rows = evaluations

\* C5 as amended: a second submission for a pair that already has an
\* Evaluation never stores or changes a row.  submit_evaluation answers it
\* 400 'Missing required fields' when a required field is missing or falsy,
\* else 403 when the image is in no image set of an active assignment of the
\* clinician (as after the first evaluation completed the assignment), else
\* 400 'Image already evaluated'.  The web form never saves it, and answers
\* with its 'already evaluated' warning when the form is valid and the image is
\* in the selected assignment's image set, which has unevaluated images left.
C5_SecondSubmissionFails ==
  Ready =>
    \A c \in Clinicians, i \in Images :
      EvaluationExists(evaluations, c, i)
      => /\ \A v \in AnyVerdicts :
              LET out == SubmitOutcome(c, JInt(i), v[1], v[2])
              IN  /\ out.rows = evaluations
                  /\ out.asg = assignments
                  /\ IF v[1] = JNull \/ Falsy(v[2])
                     THEN out.resp.status = 400 /\ out.resp.message = "Missing required fields"
                     ELSE IF i \notin ActiveSetImages(c)
                     THEN out.resp.status = 403
                     ELSE out.resp.status = 400 /\ out.resp.message = "Image already evaluated"
         /\ \A aid \in AssignmentIdInputs, b \in BOOLEAN, k \in {JInt(1), JInt(6)} :
              LET out == EvaluateOutcome(c, "POST", aid, JInt(i), b, k)
                  active == ActiveAssignments(assignments, is_active, c)
                  valid_choice == aid = NoParam \/ \E a \in active : a.id = aid
              IN  /\ out.rows = evaluations
                  /\ (/\ active # {}
                      /\ valid_choice
                      /\ FormValid(k)
                      /\ i \in ImagesOf(SelectedAssignment(active, aid).image_set)
                      /\ ~(ImagesOf(SelectedAssignment(active, aid).image_set)
                             \subseteq EvaluatedImageIds(evaluations, c, Images)))
                     => out.resp.message = "You have already evaluated this image."

\* a second submission for a stored pair has just been answered 403: the
\* first evaluation completed the assignment
C5_Witness ==
  /\ last.op = "submit_evaluation"
  /\ last.status = 403
  /\ IntConvertible(last.image_id)
  /\ EvaluationExists(evaluations, last.clinician, IntOf(last.image_id))
  /\ \E a \in assignments :
       /\ a.clinician = last.clinician
       /\ a.is_completed
       /\ IntOf(last.image_id) \in ImagesOf(a.image_set)

\* confidences that are not an integer in 1..5
BadConfidences == {JInt(6), JInt(0), JInt(-1), JStr("abc")}

\* C6: submit_evaluation with a confidence that is not an integer in 1..5,
\* on an otherwise valid and authorized request, is answered 400 and creates
\* no Evaluation row.
C6_Original ==
  Ready =>
    \A c \in Clinicians, i \in Images, b \in BOOLEAN, k \in BadConfidences :
      (/\ InScopeOf(ActiveAssignments(assignments, is_active, c), i)
       /\ ~EvaluationExists(evaluations, c, i))
      => LET out == SubmitOutcome(c, JInt(i), JBool(b), k)
         IN  out.resp.status = 400 /\ out.rows = evaluations

\* the status the stated order of checks gives a request
StatedStatus(c, image_id, confidence) ==
  IF IntOf(image_id) \notin Images THEN 404
  ELSE IF ~InScopeOf(ActiveAssignments(assignments, is_active, c), IntOf(image_id)) THEN 403
  ELSE IF EvaluationExists(evaluations, c, IntOf(image_id)) THEN 400
  ELSE IF confidence \in BadConfidences \/ confidence = JNull THEN 400
  ELSE 200

\* C7: the preconditions of submit_evaluation are checked in the order image
\* exists (404), image authorized (403), no prior evaluation (400), confidence
\* valid (400), the first failing one deciding the response; a request naming
\* an unknown image is answered 404 whatever its other fields are.
C7_Original ==
  Ready =>
    \A c \in Clinicians, i \in Images \cup {9}, v \in AnyVerdicts :
      v[1] # JNull
      => SubmitOutcome(c, JInt(i), v[1], v[2]).resp.status = StatedStatus(c, JInt(i), v[2])

\* the evaluated count over the assignment's effective scope equals the
\* scope's total, which is positive
ScopeFullyEvaluated(a, evs) ==
  /\ EffectiveScope(a) # {}
  /\ CountEvaluations(evs, a.clinician, EffectiveScope(a)) = Cardinality(EffectiveScope(a))

\* C8: immediately after every successful submit_evaluation, for every
\* assignment the clinician held as active at the start of the request,
\* is_completed is true with completed_at set if and only if the evaluated
\* count over the assignment's effective scope equals the scope's total.
C8_CompletionAfterSubmit ==
  [][(last'.op = "submit_evaluation" /\ last'.status = 200)
     => \A a \in ActiveAssignments(assignments, is_active, last'.clinician) :
          \E a2 \in assignments' :
            /\ SameRow(a, a2)
            /\ (a2.is_completed /\ a2.completed_at # None)
               <=> ScopeFullyEvaluated(a2, evaluations')]_vars

\* a successful submission of the last image of a subset has just completed
\* the assignment, while the image set has other images
C8_Witness ==
  /\ last.op = "submit_evaluation"
  /\ last.status = 200
  /\ \E a \in assignments :
       /\ a.clinician = last.clinician
       /\ a.is_completed
       /\ a.completed_at # None
       /\ IntOf(last.image_id) \in a.assigned_images
       /\ a.assigned_images # ImagesOf(a.image_set)

C10_Original ==
  [][\A a \in assignments, a2 \in assignments' :
       (SameRow(a, a2) /\ a.is_completed /\ ~a2.is_completed)
       => last'.op = "assign_split_action"]_vars

RECURSIVE SumChunkSizes(_, _, _)
\* the sizes of chunks i..k-1 of the list cut for k clinicians, added up
SumChunkSizes(list, k, i) ==
  IF i >= k THEN 0
  ELSE Len(Chunk(list, k, i)) + SumChunkSizes(list, k, i + 1)

\* C11: for an image set of n >= 1 images in any shuffled order and a list
\* of k >= 1 clinicians, the chunks the splitter cuts form a balanced
\* partition: the sizes add up to n, any two sizes differ by at most one,
\* every image is in exactly one chunk, and the first n mod k clinicians get
\* ceil(n/k) images while the others get floor(n/k).
C11_BalancedPartition ==
  \A s \in ImageSets : \A list \in Orderings(ImagesOf(s)) :
    \A k \in 1..Cardinality(Staff) :
      LET n == Len(list)
          size(i) == Len(Chunk(list, k, i))
          floor == n \div k
          ceil == IF n % k = 0 THEN floor ELSE floor + 1
      IN  n >= 1 =>
            /\ SumChunkSizes(list, k, 0) = n
            /\ \A i, j \in 0..(k - 1) : size(i) - size(j) <= 1
            /\ \A x \in ImagesOf(s) :
                 Cardinality({i \in 0..(k - 1) : x \in SeqToSet(Chunk(list, k, i))}) = 1
            /\ \A i \in 0..(k - 1) :
                 size(i) = IF i < n % k THEN ceil ELSE floor

\* the splitter has cut three images for two clinicians, one getting two
\* images and the other one
C11_Witness ==
  /\ last.op = "assign_split_action"
  /\ last.message = "Successfully split and assigned"
  /\ Cardinality(ImagesOf("s1")) = 3
  /\ \E a, b \in assignments :
       /\ a.image_set = "s1" /\ b.image_set = "s1"
       /\ Cardinality(a.assigned_images) = 2
       /\ Cardinality(b.assigned_images) = 1
       /\ a.assigned_images \cup b.assigned_images = ImagesOf("s1")
       /\ Cardinality(assignments) = 2

\* the rows a successful splitter run leaves, from the current state
SplitRows(queryset, clinicians, shuffled) ==
  SplitImageSets([rows |-> assignments, success_count |-> 0, notifications |-> 0],
                 queryset, clinicians, shuffled, 1).rows

\* the clinician lists the splitter can be run with
ClinicianLists == UNION {Orderings(ids) : ids \in (SUBSET Clinicians) \ {{}}}

\* C12: there is at most one Assignment per (clinician, image set) in every
\* reachable state, and a splitter run over a pair that already has an
\* Assignment creates no second one: the existing row (same id) ends with
\* assigned_images equal to exactly the new chunk and is_completed false.
C12_ResplitOverwrites ==
  /\ \A a, b \in assignments :
       (a.clinician = b.clinician /\ a.image_set = b.image_set) => a = b
  /\ Ready =>
       \A queryset \in (SUBSET ImageSets) \ {{}}, shuffled \in Shuffles :
         \A clinicians \in ClinicianLists :
           \A rows \in {SplitRows(queryset, clinicians, shuffled)} :
             \A i \in 1..Len(clinicians), a \in assignments :
               (/\ a.clinician = clinicians[i]
                /\ a.image_set \in queryset
                /\ ImagesOf(a.image_set) # {})
               => LET after == {b \in rows : b.clinician = a.clinician
                                              /\ b.image_set = a.image_set}
                      chunk == SeqToSet(Chunk(shuffled[a.image_set], Len(clinicians), i - 1))
                  IN  after = {[a EXCEPT !.assigned_images = chunk,
                                         !.is_completed = FALSE]}

\* the splitter has just run over an assignment that had been completed
\* with a different subset: it is open again and holds the new chunk
C12_Witness ==
  /\ last.op = "assign_split_action"
  /\ last.message = "Successfully split and assigned"
  /\ \E a \in assignments :
       /\ a.completed_at = "now"
       /\ ~a.is_completed
       /\ a.assigned_images # {}
       /\ \E e \in BagToSet(evaluations) :
            /\ e.clinician = a.clinician
            /\ ImageSetOf(e.image) = a.image_set
            /\ e.image \notin a.assigned_images

\* C13: a splitter run posted with an empty clinician list, or with ids
\* that match no clinician, reports an error and is a no-op: it leaves every
\* Assignment row (subset and completion flag included) as it was and
\* attempts no notification.
C13_NoCliniciansNoOp ==
  Ready =>
    \A queryset \in (SUBSET ImageSets) \ {{}}, clinician_ids \in {{}, {"cX"}} :
      \A out \in SplitOutcomes(queryset, TRUE, clinician_ids, Clinicians) :
        /\ out.rows = assignments
        /\ out.resp.level = "error"
        /\ out.resp.success_count = 0
        /\ out.resp.notifications = 0

\* the splitter has just rejected a run without clinicians while an open
\* and a completed assignment exist
C13_Witness ==
  /\ last.op = "assign_split_action"
  /\ last.level = "error"
  /\ last.message = "Selected clinicians not found."
  /\ \E a, b \in assignments : a.is_completed /\ ~b.is_completed

\* C14: a splitter run skips an image set that has no images without
\* failing: no Assignment of that image set is created or modified, while
\* every other selected image set is still split, each listed clinician
\* ending with an open Assignment for it, and the run reports success.
C14_EmptySetSkipped ==
  Ready =>
    \A queryset \in (SUBSET ImageSets) \ {{}}, clinician_ids \in (SUBSET Clinicians) \ {{}} :
      \A out \in SplitOutcomes(queryset, TRUE, clinician_ids, Clinicians) :
        /\ out.resp.level = "info"
        /\ out.resp.success_count = Cardinality({s \in queryset : ImagesOf(s) # {}})
        /\ \A s \in queryset :
             IF ImagesOf(s) = {}
             THEN {a \in out.rows : a.image_set = s} = {a \in assignments : a.image_set = s}
             ELSE \A c \in clinician_ids :
                    \E a \in out.rows :
                      /\ a.clinician = c /\ a.image_set = s /\ ~a.is_completed
                      /\ a.assigned_images \subseteq ImagesOf(s)

\* the splitter has just run over both image sets, one of them empty: the
\* empty one has no assignment from the run, the other one is split
C14_Witness ==
  /\ last.op = "assign_split_action"
  /\ last.level = "info"
  /\ last.success_count = 1
  /\ ImagesOf("s2") = {}
  /\ \E a \in assignments : a.image_set = "s1" /\ a.assigned_images # {}
  /\ \E a \in assignments : a.image_set = "s2" /\ a.completed_at = None /\ a.is_completed

\* C15: for every Assignment in every reachable state, also after the
\* splitter replaced its subset while evaluations outside the new subset
\* remain, get_progress() is within [0, 100], and get_progress() = 100
\* implies that the evaluated count over the effective scope equals the
\* number of images in the scope.
C15_ProgressBounded ==
  \A a \in assignments :
    LET p == get_progress(a, evaluations)
    IN  /\ 0 <= p.num
        /\ p.num <= 100 * p.den
        /\ ProgressIs100(p) =>
             get_evaluated_count(a, evaluations) = Cardinality(EffectiveScope(a))

\* an assignment whose subset the splitter has replaced while its clinician
\* has an evaluation of the image set outside the new subset
C15_Witness ==
  /\ last.op = "assign_split_action"
  /\ \E a \in assignments :
       /\ a.assigned_images # {}
       /\ a.completed_at = "now"
       /\ get_progress(a, evaluations).num = 0
       /\ \E e \in BagToSet(evaluations) :
            /\ e.clinician = a.clinician
            /\ e.image \in ImagesOf(a.image_set) \ a.assigned_images

\* the images of a scope that the clinician has an Evaluation of
EvaluatedIn(scope, c) ==
  {i \in scope : \E e \in BagToSet(evaluations) : e.clinician = c /\ e.image = i}

\* C16: get_progress() of every Assignment equals evaluated / total * 100,
\* where total is the size of the effective scope (assigned_images when it
\* is not empty, otherwise all images of the image set) and evaluated is
\* the number of images of that scope the assignment's own clinician has
\* evaluated; it is 0 when the scope is empty.
C16_ProgressValue ==
  \A a \in assignments :
    LET scope == IF a.assigned_images = {} THEN ImagesOf(a.image_set)
                 ELSE a.assigned_images
        total == Cardinality(scope)
        evaluated == Cardinality(EvaluatedIn(scope, a.clinician))
        p == get_progress(a, evaluations)
    IN  IF total = 0 THEN p.num = 0
        ELSE p.num * total = evaluated * 100 * p.den

\* a submission has just brought an open assignment over a whole image set
\* of two images to progress 50
C16_Witness ==
  /\ last.op = "submit_evaluation"
  /\ last.status = 200
  /\ \E a \in assignments :
       /\ a.clinician = last.clinician
       /\ ~a.is_completed
       /\ a.assigned_images = {}
       /\ Cardinality(ImagesOf(a.image_set)) = 2
       /\ get_progress(a, evaluations).num = 50 * get_progress(a, evaluations).den

\* what the claim says of one entry of the admin aggregate
PanelRowAsClaimed(a, row) ==
  LET rows == PanelEvaluations(a, evaluations)
      reals == RowCount(evaluations, {e \in rows : ImageIsReal(e.image)})
      synths == RowCount(evaluations, {e \in rows : ~ImageIsReal(e.image)})
  IN  /\ (row.accuracy = Null) <=> (RowCount(evaluations, rows) = 0)
      /\ (row.real_accuracy = Null) <=> (reals = 0)
      /\ (row.synth_accuracy = Null) <=> (synths = 0)
      /\ row.total_evaluations > 0 =>
           /\ row.real_evaluated = reals
           /\ row.synth_evaluated = synths
           /\ row.real_evaluated + row.synth_evaluated = row.total_evaluations
           /\ row.correct_evaluations = row.real_correct + row.synth_correct
           /\ row.real_accuracy # Null =>
                row.real_accuracy = Percent(row.real_correct, row.real_evaluated)
           /\ row.synth_accuracy # Null =>
                row.synth_accuracy = Percent(row.synth_correct, row.synth_evaluated)

\* C17 (as stated): the admin aggregate reports, for every assignment, an
\* accuracy that is null when the assignment has no evaluations, a
\* real_accuracy and a synth_accuracy that are null exactly when their own
\* denominator is 0, and counters with real_evaluated + synth_evaluated =
\* total and correct = real_correct + synth_correct.
C17_Original ==
  Ready =>
    LET out == PanelOutcome(TRUE, assignments, evaluations)
    IN  /\ out.status = 200
        /\ \A a \in assignments : PanelRowAsClaimed(a, PanelRow(a, evaluations))

\* the entries of a page that renders are as the claim says
PanelRowsWhenRendered ==
  (Ready /\ ~PanelRaises(assignments, evaluations)) =>
    \A a \in assignments : PanelRowAsClaimed(a, PanelRow(a, evaluations))

\* the effective scopes of a set of assignments, without the images the
\* clinician has evaluated
UnevaluatedScope(c, rows) ==
  (UNION {EffectiveScope(a) : a \in rows}) \ EvaluatedImageIds(evaluations, c, Images)

\* C18 (as stated): get_next_image and the GET of evaluate_image return an
\* image only from the effective scope of the clinician's active
\* assignments (of the given assignment when an id is supplied) minus the
\* images the clinician has evaluated, and signal 'completed' exactly when
\* that remainder is empty.
C18_Original ==
  Ready =>
    \A c \in Clinicians, assignment_id \in AssignmentIdInputs :
      LET scope == NextImageScope(c, assignment_id)
          pool == UnevaluatedScope(c, scope)
          active == ActiveAssignments(assignments, is_active, c)
          selected == assignment_id = NoParam \/ \E a \in active : a.id = assignment_id
      IN  /\ \A pick \in NextImageRemaining(c, assignment_id) \cup {0} :
               LET r == NextImageResponse(c, assignment_id, pick)
               IN  (pick = 0) = (NextImageRemaining(c, assignment_id) = {}) =>
                     /\ r.completed <=> pool = {}
                     /\ ~r.completed => r.image_id \in pool
          /\ (active # {} /\ selected) =>
               LET sel == SelectedAssignment(active, assignment_id)
                   page == EvaluateOutcome(c, "GET", assignment_id, JNull, FALSE, JNull)
               IN  /\ EvaluatePageImages(c, assignment_id) \subseteq UnevaluatedScope(c, {sel})
                   /\ (page.resp.status = 302) <=> (UnevaluatedScope(c, {sel}) = {})

\* the assignment ids a request can carry
PoolIds == {NoParam, UnknownId} \cup {1, 2}

\* the candidate pool of get_next_image for every clinician and assignment
\* id a request can carry; ids of rows that do not exist select nothing
NextImagePools ==
  [c \in Clinicians |->
     [assignment_id \in PoolIds |->
        NextImageRemaining(c, assignment_id)]]

\* C19 (as stated): get_next_image writes no Evaluation, no Assignment and
\* no completion flag, the candidate pools after a call are the pools
\* before it, and an image leaves a pool only in a step that records an
\* Evaluation of it by the pool's clinician.
C19_Original ==
  [][/\ last'.op = "get_next_image" =>
          /\ evaluations' = evaluations
          /\ assignments' = assignments
          /\ is_active' = is_active
          /\ NextImagePools' = NextImagePools
     /\ \A c \in Clinicians, assignment_id \in PoolIds :
          \A i \in NextImageRemaining(c, assignment_id) \ NextImageRemaining(c, assignment_id)' :
            /\ ~EvaluationExists(evaluations, c, i)
            /\ EvaluationExists(evaluations', c, i)]_vars

\* C19 (amended): get_next_image writes no Evaluation, no Assignment and
\* no completion flag, so the candidate pools after a call are the pools
\* before it; and while the assignments in scope of a request stay as
\* they are, an image leaves its pool only in a step that records an
\* Evaluation of it by the pool's clinician.
C19_NextImageReadOnly ==
  [][/\ last'.op = "get_next_image" =>
          /\ evaluations' = evaluations
          /\ assignments' = assignments
          /\ is_active' = is_active
          /\ NextImagePools' = NextImagePools
     /\ \A c \in Clinicians, assignment_id \in PoolIds :
          \A i \in NextImageRemaining(c, assignment_id) \ NextImageRemaining(c, assignment_id)' :
            NextImageScope(c, assignment_id)' = NextImageScope(c, assignment_id)
            => /\ ~EvaluationExists(evaluations, c, i)
               /\ EvaluationExists(evaluations', c, i)]_vars

\* get_next_image has just returned an image to a clinician who has already
\* evaluated another image of the pool's image set
C19_Witness ==
  /\ last.op = "get_next_image"
  /\ last.message = "image"
  /\ \E e \in BagToSet(evaluations) :
       /\ e.clinician = last.clinician
       /\ ImageSetOf(e.image) = ImageSetOf(IntOf(last.image_id))
  /\ IntOf(last.image_id) \in NextImageRemaining(last.clinician, NoParam)

\* C20: no step of the normal flow (submissions, next-image requests, the
\* evaluation form, splitter runs) updates or deletes an Evaluation: every
\* row present before a step is present after it with the same clinician,
\* image, verdict and confidence.
C20_EvaluationsRetained ==
  [][\A e \in DOMAIN evaluations :
       /\ e \in DOMAIN evaluations'
       /\ evaluations'[e] >= evaluations[e]]_vars

\* the splitter has just run again and left an earlier evaluation outside
\* its clinician's new subset, where it remains
C20_Witness ==
  /\ last.op = "assign_split_action"
  /\ last.level = "info"
  /\ \E a \in assignments, e \in BagToSet(evaluations) :
       /\ a.clinician = e.clinician
       /\ e.image \in ImagesOf(a.image_set)
       /\ a.assigned_images # {}
       /\ e.image \notin a.assigned_images
       /\ a.completed_at = "now"
       /\ ~a.is_completed

\* the form bodies EvaluationForm accepts
ValidForms == {body \in FormInputs : body[3][1] = "int" /\ body[3][2] \in 1..5}

\* C22: when a clinician with an active assignment posts a valid evaluation
\* form for an image in the effective scope of the assignment the page
\* works on (the one named in the request, or the newest active one) that
\* they have not evaluated, exactly one Evaluation for (clinician, image)
\* with the posted verdict and confidence is saved, nothing else is written
\* to Evaluation, and the response redirects to the evaluate page.
C22_FormSavesEvaluation ==
  Ready =>
    \A c \in Clinicians, assignment \in AssignmentIdInputs, body \in ValidForms :
      \A sel \in ActiveAssignments(assignments, is_active, c) :
        (/\ \/ sel.id = assignment
            \/ /\ assignment = NoParam
               /\ \A b \in ActiveAssignments(assignments, is_active, c) : b.id <= sel.id
         /\ body[1] # JNull
         /\ IntOf(body[1]) \in EffectiveScope(sel)
         /\ ~EvaluationExists(evaluations, c, IntOf(body[1])))
        => \A out \in {EvaluateOutcome(c, "POST", assignment, body[1], body[2], body[3])} :
             /\ out.resp.status = 302
             /\ out.resp.message \in {"saved, evaluate", "saved, assignment"}
             /\ out.rows = evaluations (+) SetToBag({[clinician |-> c, image |-> IntOf(body[1]),
                                                      is_real |-> body[2],
                                                      confidence |-> IntOf(body[3])]})

\* the evaluation form has just saved a verdict for a clinician who holds
\* two active assignments
C22_Witness ==
  /\ last.op = "evaluate_image"
  /\ last.status = 302
  /\ last.message = "saved, assignment"
  /\ Cardinality({a \in assignments : a.clinician = last.clinician}) = 2
  /\ \E e \in BagToSet(evaluations) : e.clinician = last.clinician

\* C23 (as stated): for every assignment in every reachable state, the
\* total and the progress of its entry in the admin panel equal the size
\* of its effective scope and its get_progress(), also when the assignment
\* has a non-empty assigned_images subset.
C23_Original ==
  Ready =>
    \A a \in assignments :
      LET row == PanelRow(a, evaluations)
          p == get_progress(a, evaluations)
      IN  /\ row.total_images = Cardinality(EffectiveScope(a))
          /\ row.progress.num * p.den = p.num * row.progress.den

\* C24 (as stated): every response of submit_evaluation other than success,
\* the 500 of a failure at any point of the request included, leaves the
\* Evaluation rows and every Assignment's is_completed and completed_at as
\* they were before the request.
C24_Original ==
  Ready =>
    \A c \in Clinicians, body \in SubmitInputs :
      \A out \in {SubmitOutcome(c, body[1], body[2], body[3])}
                 \cup SubmitFaultOutcomes(c, body[1], body[2], body[3]) :
        out.resp.status # 200 =>
          /\ out.rows = evaluations
          /\ out.asg = assignments

\* the responses the code itself decides on write nothing when they are
\* not the success
SubmitFailuresWriteNothing ==
  Ready =>
    \A c \in Clinicians, body \in SubmitInputs :
      \A out \in {SubmitOutcome(c, body[1], body[2], body[3])} :
        out.resp.status # 200 =>
          /\ out.rows = evaluations
          /\ out.asg = assignments

\* C25 (as stated): after a splitter run over an image set with at least
\* one image and a list of k >= 1 clinicians, also when k exceeds the
\* number of images, the effective scopes of the k clinicians' assignments
\* for the image set are pairwise disjoint and their union is the image set.
C25_Original ==
  Ready =>
    \A clinician_ids \in (SUBSET Staff) \ {{}}, s \in ImageSets :
      ImagesOf(s) # {} =>
        \A out \in SplitOutcomes({s}, TRUE, clinician_ids, Staff) :
          LET mine == {a \in out.rows : a.image_set = s /\ a.clinician \in clinician_ids}
          IN  /\ \A a, b \in mine :
                   a # b => EffectiveScope(a) \cap EffectiveScope(b) = {}
              /\ UNION {EffectiveScope(a) : a \in mine} = ImagesOf(s)

\* the scopes a run leaves are disjoint and cover the image set when the
\* list of clinicians is not longer than the image set
DisjointWhenEnoughImages ==
  Ready =>
    \A clinician_ids \in (SUBSET Staff) \ {{}}, s \in ImageSets :
      (ImagesOf(s) # {} /\ Cardinality(clinician_ids) <= Cardinality(ImagesOf(s))) =>
        \A out \in SplitOutcomes({s}, TRUE, clinician_ids, Staff) :
          LET mine == {a \in out.rows : a.image_set = s /\ a.clinician \in clinician_ids}
          IN  /\ \A a, b \in mine :
                   a # b => EffectiveScope(a) \cap EffectiveScope(b) = {}
              /\ UNION {EffectiveScope(a) : a \in mine} = ImagesOf(s)

\* the evaluate page shows an image to evaluate or the done page
PageShown ==
  /\ last.op = "evaluate_image"
  /\ last.status = 200

\* C26 (as stated): whenever the evaluate page redirects to the evaluate
\* page, the chain of redirects ends: the clinician is eventually shown an
\* image to evaluate or the done page, whatever the state of the
\* assignments, an assignment of an image set without images included.
C26_Original == RedirectedToEvaluate ~> PageShown

\* the get_next_image responses that carry progress, for every clinician,
\* with and without assignment_id
ProgressResponses ==
  {r \in {NextImageResponse(c[1], c[2], 0) :
            c \in Clinicians \X ({NoParam} \cup {a.id : a \in assignments})} :
     ~r.completed}

\* C27 (as stated): in every get_next_image response that carries progress,
\* with or without assignment_id, progress.evaluated + remaining equals
\* progress.total, so evaluated is at most total and the percentage
\* evaluated / total * 100 lies within [0, 100].
C27_Original ==
  Ready =>
    \A r \in ProgressResponses :
      /\ r.progress.evaluated + r.remaining = r.progress.total
      /\ r.progress.evaluated <= r.progress.total
      /\ r.progress.evaluated * 100 <= 100 * r.progress.total

\* with assignment_id the evaluated count is restricted to the images of
\* the selected assignment, and the three numbers agree
ProgressAddsUpWithAssignmentId ==
  Ready =>
    \A c \in Clinicians, a \in assignments :
      \A r \in {NextImageResponse(c, a.id, 0)} :
        ~r.completed =>
          r.progress.evaluated + r.remaining = r.progress.total

\* C28 (as stated): in every state reached through evaluation intake, the
\* evaluate page and the splitter, an Assignment has completed_at set if
\* and only if its is_completed is true.
C28_Original ==
  \A a \in assignments : (a.completed_at # None) <=> a.is_completed

\* one direction survives the splitter: a completed assignment always has
\* its completion time
CompletedHasTimestamp ==
  \A a \in assignments : a.is_completed => a.completed_at # None

\* get_next_image has answered clinician c with 'completed'
AnsweredCompleted(c) ==
  /\ last.op = "get_next_image"
  /\ last.clinician = c
  /\ last.message \in {"No active assignments", "All assigned images have been evaluated"}

\* every assignment of c on an active image set that has images is completed
NoStaleFlag(c) ==
  \A a \in assignments :
    (a.clinician = c /\ is_active[a.image_set] /\ ImagesOf(a.image_set) # {})
      => a.is_completed

\* C29 (as stated): when the splitter runs only finitely often and a
\* clinician keeps calling get_next_image and submitting the returned image,
\* get_next_image eventually answers 'completed', and when it does every
\* assignment of the clinician on an active image set with at least one
\* image has is_completed true.
C29_Original ==
  \A c \in Clinicians :
    /\ <>AnsweredCompleted(c)
    /\ [](AnsweredCompleted(c) => NoStaleFlag(c))

\* the first half on its own: the 'completed' answer is eventually given
CompletedEventuallyAnswered ==
  \A c \in Clinicians : <>AnsweredCompleted(c)

\* the messages with which register turns a request down
RegisterRejections ==
  {"Invitation token required.", "Invalid token format.",
   "Invalid or used invitation token."}

\* what holds of the tokens in a state: a used invitation is reported as
\* not valid and every registration attempt with it is rejected and creates
\* no user; validate_token reports valid exactly when an unused invitation
\* with the token exists
TokenGate ==
  /\ \A tok \in Tokens :
       invitations[tok] = "used" =>
         /\ \A body \in ValidateInputs :
              (body[1] = "str" /\ Strip(body[2]) = tok) =>
                \A r \in {ValidateOutcome(body)} : r.status = 200 /\ ~r.valid
         /\ \A method \in {"GET", "POST"}, t \in TokenInputs, form \in RegistrationForms :
              Strip(t) = tok =>
                \A out \in {RegisterOutcome(method, t, form)} :
                  /\ out.resp.status = 200
                  /\ out.resp.message \in RegisterRejections
                  /\ out.users = users
                  /\ out.invitations = invitations
  /\ \A body \in ValidateInputs :
       \A r \in {ValidateOutcome(body)} :
         (r.status = 200 /\ r.valid)
           <=> (body[1] = "str" /\ UnusedInvitation(invitations, Strip(body[2])))

\* a successful registration was made with an unused invitation, which it
\* marks is_used, and it creates one user
SuccessMarksUsed ==
  (last'.op = "register" /\ last'.status = 302) =>
    /\ invitations[Strip(last'.token)] = "unused"
    /\ invitations'[Strip(last'.token)] = "used"
    /\ Cardinality(users') = Cardinality(users) + 1

\* C21 (as stated): an invitation token is single-use. A successful
\* registration with an unused token marks the invitation is_used; from
\* then on the invitation stays used, validate_token reports the token as
\* not valid and every later registration attempt with it is rejected
\* without creating a user; validate_token reports valid exactly when an
\* unused invitation with that token exists.
C21_Original ==
  /\ []TokenGate
  /\ [][/\ SuccessMarksUsed
        /\ \A tok \in Tokens :
             invitations[tok] = "used" => invitations'[tok] = "used"]_vars

\* C21 (amended): as stated, for as long as the administrator does not
\* clear is_used on the invitation in the admin console: every other step
\* leaves a used invitation used.
C21_SingleUse ==
  /\ []TokenGate
  /\ [][/\ SuccessMarksUsed
        /\ \A tok \in Tokens :
             (invitations[tok] = "used" /\ last'.op # "invitation_change")
               => invitations'[tok] = "used"]_vars

\* a registration attempt with the token of an earlier successful
\* registration has just been turned down
C21_Witness ==
  /\ last.op = "register"
  /\ last.message = "Invalid or used invitation token."
  /\ IsUUID(Strip(last.token))
  /\ invitations[Strip(last.token)] = "used"
  /\ users # {}

\* the responses of a registration attempt that fails
RegisterFailures == RegisterRejections \cup {"register.html, form errors"}

\* C30: a registration attempt that fails (missing token, malformed token,
\* unknown or already used token, or invalid form data) creates no user and
\* leaves every invitation's is_used flag unchanged, so an invitation that
\* was unused is still accepted with a valid form after the failed attempt.
C30_FailedRegistrationWritesNothing ==
  [][(last'.op = "register" /\ last'.message \in RegisterFailures) =>
       /\ users' = users
       /\ invitations' = invitations
       /\ \A tok \in Tokens :
            invitations[tok] = "unused" =>
              \A form \in RegistrationForms :
                RegistrationFormValid(form, users) =>
                  (RegisterOutcome("POST", tok, form).resp.status = 302)']_vars

\* a registration with an unused invitation has just failed on its form
\* data, and the invitation is still unused
C30_Witness ==
  /\ last.op = "register"
  /\ last.message = "register.html, form errors"
  /\ invitations[Strip(last.token)] = "unused"

====
